---- MODULE Spec2Model ----
(***************************************************************************)
(* A model of scripts/lightGBM_model.py: the LightGBMPredictor class       *)
(* (validate_data, remove_outliers, _prepare_features, train, save_models, *)
(* load_models, predict) and the command line entry point main().          *)
(*                                                                         *)
(* Five groups of behaviours are described:                                 *)
(*   SpecValidate  - validate_data applied to one table                    *)
(*   SpecOutliers  - remove_outliers applied to one table                  *)
(*   Spec          - concurrent one-shot CLI processes (train / predict)   *)
(*                   sharing one model directory                           *)
(*   SpecSeq       - the same processes run one after the other            *)
(*   SpecInstance  - one LightGBMPredictor object receiving several        *)
(*                   load_models / predict calls while a train process     *)
(*                   writes the model directory                            *)
(***************************************************************************)
EXTENDS Integers, Sequences, FiniteSets, TLC

VARIABLES
    fpc,        \* position of the pure-function harness
    fin,        \* the table handed to validate_data / remove_outliers
    fcur,       \* the table as the operation holds it (df)
    fidx,       \* remove_outliers: index of the next column of the loop
    fout,       \* validate_data: [ret, printed]; remove_outliers: the exception raised or "none"
    kind,       \* per process: "train", "predict" (CLI runs), "lib" (an object in a host program), "off"
    pc,         \* per process: position in main() / train() / save_models() / load_models() / predict()
    args,       \* per process: the command line arguments (or the arguments of the current call)
    self,       \* per process: the LightGBMPredictor fields
    stdout,     \* per process: the lines printed on stdout, in order
    exit,       \* per process: "running", 0, 1
    uncaught,   \* per process: the exception that left main() uncaught, or "none"
    disk,       \* the model directory: artifact -> file content, or Absent
    wrote,      \* per process: the artifacts whose dump it has completed
    lastWriter, \* per artifact: the process that completed a dump of it last (0: nobody)
    calls       \* "lib" process: the finished calls, each
                \* [op, loaded, load_ret, ret, raised, before, after]

vars == <<fpc, fin, fcur, fidx, fout, kind, pc, args, self, stdout, exit, uncaught,
          disk, wrote, lastWriter, calls>>

pureVars == <<fpc, fin, fcur, fidx, fout>>
procVars == <<kind, pc, args, self, stdout, exit, uncaught, disk, wrote, lastWriter, calls>>

-----------------------------------------------------------------------------
(* Bounds of the model *)

MaxRowsV == 12      \* validate_data: largest row count tried
MaxRows == 3        \* remove_outliers: longest table tried
MaxVal == 1         \* remove_outliers: target values are 0..MaxVal or NaN
NumTrain == 2       \* Spec: number of concurrent train processes
MaxCalls == 3       \* SpecInstance: number of calls made on the object

(* Program constants *)

MinRows == 10       \* len(df) < 10
LowerQ == 1         \* lower_quantile = 0.01, in percent
UpperQ == 99        \* upper_quantile = 0.99, in percent

-----------------------------------------------------------------------------
(* Sequences helpers *)

Range(s) == {s[i] : i \in 1..Len(s)}

RECURSIVE SeqFilter(_, _)
\* [x for x in s if x \in keep]
SeqFilter(s, keep) ==
    IF s = <<>> THEN <<>>
    ELSE IF Head(s) \in keep THEN <<Head(s)>> \o SeqFilter(Tail(s), keep)
         ELSE SeqFilter(Tail(s), keep)

RECURSIVE Insert(_, _)
Insert(x, s) ==
    IF s = <<>> THEN <<x>>
    ELSE IF x <= Head(s) THEN <<x>> \o s
         ELSE <<Head(s)>> \o Insert(x, Tail(s))

RECURSIVE SortAsc(_)
SortAsc(s) == IF s = <<>> THEN <<>> ELSE Insert(Head(s), SortAsc(Tail(s)))

-----------------------------------------------------------------------------
(* validate_data *)

required_columns ==
    <<"price_target", "sales_target", "brand", "region", "category", "seller",
      "price", "original_price">>

\* missing_columns = [col for col in required_columns if col not in df.columns]
MissingColumns(df) == SeqFilter(required_columns, Range(required_columns) \ df.columns)

ValidateDataOffByOne(df) ==
    IF MissingColumns(df) # <<>>
    THEN [ret |-> FALSE, printed |-> <<"RAW">>]
    ELSE IF df.nrows <= MinRows
         THEN [ret |-> FALSE, printed |-> <<"RAW">>]
         ELSE [ret |-> TRUE, printed |-> <<>>]

\* The value returned and the lines printed (with a bare print, no INFO: prefix).
ValidateData(df) ==
    IF MissingColumns(df) # <<>>
    THEN [ret |-> FALSE, printed |-> <<"RAW">>]
    ELSE IF df.nrows < MinRows
         THEN [ret |-> FALSE, printed |-> <<"RAW">>]
         ELSE [ret |-> TRUE, printed |-> <<>>]

\* The tables tried: any subset of the required columns, with or without one
\* column that is not required, and 0..MaxRowsV rows.
ValidateInputs ==
    [columns : {c \cup e : c \in SUBSET Range(required_columns), e \in {{}, {"stock_level"}}},
     nrows : 0..MaxRowsV]

ValidateCall ==
    /\ fpc = "validate"
    /\ fout' = ValidateData(fcur)
    /\ fpc' = "validated"
    /\ UNCHANGED <<fin, fcur, fidx>>
    /\ UNCHANGED procVars

-----------------------------------------------------------------------------
(* remove_outliers *)

\* A missing value; the target values proper are 0..MaxVal.
NaN == 0 - 1
TargetCols == <<"price_target", "sales_target">>

\* The non-missing values of a column, which is what Series.quantile ranks.
RECURSIVE ColValues(_, _)
ColValues(rows, col) ==
    IF rows = <<>> THEN <<>>
    ELSE IF Head(rows)[col] = NaN THEN ColValues(Tail(rows), col)
         ELSE <<Head(rows)[col]>> \o ColValues(Tail(rows), col)

\* Series.quantile(q) with linear interpolation, q in percent, times 100:
\* position h = q*(n-1) between the ranked values; NaN when nothing is ranked.
Quantile100(rows, col, q) ==
    LET s == SortAsc(ColValues(rows, col))
        n == Len(s)
        h == q * (n - 1)
        lo == h \div 100
        fr == h % 100
    IN IF n = 0 THEN NaN
       ELSE IF fr = 0 THEN 100 * s[lo + 1]
            ELSE 100 * s[lo + 1] + fr * (s[lo + 2] - s[lo + 1])

\* (df[col] >= lower_bound) & (df[col] <= upper_bound); a comparison with NaN is False.
InBounds(v, lower, upper) ==
    /\ v # NaN
    /\ lower # NaN
    /\ upper # NaN
    /\ 100 * v >= lower
    /\ 100 * v <= upper

RECURSIVE KeepRows(_, _, _, _)
KeepRows(rows, col, lower, upper) ==
    IF rows = <<>> THEN <<>>
    ELSE IF InBounds(Head(rows)[col], lower, upper)
         THEN <<Head(rows)>> \o KeepRows(Tail(rows), col, lower, upper)
         ELSE KeepRows(Tail(rows), col, lower, upper)

\* One pass of the loop body when it does not raise: the bounds come from base.
FilterBy(rows, base, col) ==
    KeepRows(rows, col, Quantile100(base, col, LowerQ), Quantile100(base, col, UpperQ))

\* What df[col].quantile(...) raises: KeyError without the column, TypeError
\* on a column of strings (object dtype), nothing on a numeric column.
ColumnError(df, col) ==
    CASE df.dtype[col] = "absent" -> "KeyError"
      [] df.dtype[col] = "object" -> "TypeError"
      [] OTHER -> "none"

OutlierStepOnOriginal(df, orig, col) == FilterBy(df.rows, orig.rows, col)

\* The loop body: lower_bound, upper_bound from the frame df names NOW, then
\* df = df[(df[col] >= lower_bound) & (df[col] <= upper_bound)].
OutlierStep(df, orig, col) == FilterBy(df.rows, df.rows, col)

Values == (0..MaxVal) \cup {NaN}
RowSet == [price_target : Values, sales_target : Values]
RECURSIVE SeqsUpTo(_, _)
SeqsUpTo(S, n) ==
    IF n = 0 THEN {<<>>}
    ELSE LET shorter == SeqsUpTo(S, n - 1)
         IN shorter \cup {Append(s, x) : s \in {t \in shorter : Len(t) = n - 1}, x \in S}

Dtypes == {"float", "object", "absent"}
NumericDtype == [price_target |-> "float", sales_target |-> "float"]

\* Numeric tables of every shape; tables with a missing or a string column
\* carry at most one row, since the operation raises before looking at the rows.
OutlierInputs ==
    [rows : SeqsUpTo(RowSet, MaxRows), dtype : {NumericDtype}]
        \cup [rows : SeqsUpTo(RowSet, 1),
              dtype : [{"price_target", "sales_target"} -> Dtypes] \ {NumericDtype}]

\* for col in columns: one iteration
RemoveOutliersIter ==
    /\ fpc = "outliers"
    /\ fidx <= Len(TargetCols)
    /\ LET col == TargetCols[fidx]
           err == ColumnError(fcur, col)
       IN IF err # "none"
          THEN /\ fout' = err
               /\ fpc' = "raised"
               /\ UNCHANGED <<fcur, fidx>>
          ELSE /\ fcur' = [fcur EXCEPT !.rows = OutlierStep(fcur, fin, col)]
               /\ fidx' = fidx + 1
               /\ UNCHANGED <<fout, fpc>>
    /\ UNCHANGED fin
    /\ UNCHANGED procVars

\* return df
RemoveOutliersReturn ==
    /\ fpc = "outliers"
    /\ fidx > Len(TargetCols)
    /\ fpc' = "returned"
    /\ UNCHANGED <<fin, fcur, fidx, fout>>
    /\ UNCHANGED procVars

-----------------------------------------------------------------------------
(* Idle values of the variables a specification does not use *)

Procs == 1..(NumTrain + 1)
Artifacts == {"price_model.pkl", "sales_model.pkl", "feature_info.json"}

PureIdle ==
    /\ fpc = "off"
    /\ fin = [columns |-> {}, nrows |-> 0]
    /\ fcur = fin
    /\ fidx = 0
    /\ fout = "none"

ProcsIdle ==
    /\ kind = [p \in Procs |-> "off"]
    /\ pc = [p \in Procs |-> "done"]
    /\ args = [p \in Procs |-> <<>>]
    /\ self = [p \in Procs |-> <<>>]
    /\ stdout = [p \in Procs |-> <<>>]
    /\ exit = [p \in Procs |-> 0]
    /\ uncaught = [p \in Procs |-> "none"]
    /\ disk = [a \in Artifacts |-> <<>>]
    /\ wrote = [p \in Procs |-> {}]
    /\ lastWriter = [a \in Artifacts |-> 0]
    /\ calls = <<>>

-----------------------------------------------------------------------------
(* validate_data on one table *)

InitValidate ==
    /\ fpc = "validate"
    /\ fin \in ValidateInputs
    /\ fcur = fin
    /\ fidx = 0
    /\ fout = [ret |-> FALSE, printed |-> <<>>]
    /\ ProcsIdle

NextValidate == ValidateCall

SpecValidate == InitValidate /\ [][NextValidate]_vars

(* remove_outliers(df, ['price_target', 'sales_target']) on one table *)

InitOutliers ==
    /\ fpc = "outliers"
    /\ fin \in OutlierInputs
    /\ fcur = fin
    /\ fidx = 1
    /\ fout = "none"
    /\ ProcsIdle

NextOutliers == RemoveOutliersIter \/ RemoveOutliersReturn

SpecOutliers == InitOutliers /\ [][NextOutliers]_vars

-----------------------------------------------------------------------------
(* C4: validate_data returns True exactly when all 8 required columns are   *)
(* present and the table has at least 10 rows, False for every other table, *)
(* and the table it was given is the same afterwards.                       *)
C4_ValidateExact ==
    fpc = "validated" =>
        /\ fout.ret = (/\ \A c \in {"price_target", "sales_target", "brand", "region",
                                   "category", "seller", "price", "original_price"} :
                              c \in fin.columns
                       /\ fin.nrows >= 10)
        /\ fcur = fin

\* validate_data has returned True on a table of exactly 10 rows.
C4_Witness ==
    /\ fpc = "validated"
    /\ fout.ret = TRUE
    /\ fin.nrows = 10

-----------------------------------------------------------------------------
(* remove_outliers: what the claims compare the result with *)

IsSubSeq(s, t) ==
    \E f \in [1..Len(s) -> 1..Len(t)] :
        /\ \A i \in 1..Len(s) : s[i] = t[f[i]]
        /\ \A i, j \in 1..Len(s) : i < j => f[i] < f[j]

\* v lies within the [lower, upper] quantile bounds of column col of base.
Within(v, base, col) ==
    /\ v # NaN
    /\ Quantile100(base, col, LowerQ) # NaN
    /\ 100 * v >= Quantile100(base, col, LowerQ)
    /\ 100 * v <= Quantile100(base, col, UpperQ)

\* The rows of the input within the bounds of the first column, taken on the input.
AfterFirst == SelectSeq(fin.rows, LAMBDA r : Within(r.price_target, fin.rows, "price_target"))

\* Each column filtered against bounds taken from the original frame.
Independent ==
    SelectSeq(fin.rows, LAMBDA r : /\ Within(r.price_target, fin.rows, "price_target")
                                   /\ Within(r.sales_target, fin.rows, "sales_target"))

C5_Sequential ==
    fpc = "returned" =>
        /\ IsSubSeq(fcur.rows, fin.rows)
        /\ \A i \in 1..Len(fcur.rows) :
              /\ Within(fcur.rows[i].price_target, fin.rows, "price_target")
              /\ Within(fcur.rows[i].sales_target, AfterFirst, "sales_target")
        /\ fcur.rows = SelectSeq(AfterFirst,
                                 LAMBDA r : Within(r.sales_target, AfterFirst, "sales_target"))

(* C5 as stated: remove_outliers filters the columns in list order, the     *)
(* second against bounds taken on the frame the first filtering left, and   *)
(* the operation never raises.                                              *)
C5_AsStated == C5_Sequential /\ fpc # "raised"

(* C5 amended: the same, and the operation does not raise when both target  *)
(* columns are present and numeric (it raises KeyError on a missing column  *)
(* and TypeError on a column of strings).                                   *)
C5_Amended ==
    /\ C5_Sequential
    /\ (fin.dtype = NumericDtype => fpc # "raised")
    /\ (fpc = "raised" => fin.dtype # NumericDtype /\ fcur.rows \in {fin.rows, AfterFirst})

\* The result differs from filtering each column against the original frame.
C5_Witness ==
    /\ fpc = "returned"
    /\ fcur.rows # Independent
    /\ \A i \in 1..Len(fin.rows) :
          fin.rows[i].price_target # NaN /\ fin.rows[i].sales_target # NaN

-----------------------------------------------------------------------------
(* _prepare_features: the fixed feature schema *)

categorical_features ==
    <<"brand", "region", "category", "seller", "day_of_week", "month", "quarter">>

numerical_features ==
    <<"price", "original_price", "discount_percentage", "stock_level",
      "customer_rating", "review_count", "delivery_days", "is_weekend", "is_holiday",
      "sales_quantity_lag_1", "price_lag_1", "sales_quantity_lag_3", "price_lag_3",
      "sales_quantity_lag_7", "price_lag_7", "sales_quantity_rolling_mean_3",
      "price_rolling_mean_3", "sales_quantity_rolling_mean_7", "price_rolling_mean_7">>

\* feature_names = numerical_features + categorical_features; df['is_weekend'] and
\* df[feature_names] raise KeyError when a schema column is not in the table.
PrepareFeatures(columns) ==
    IF Range(numerical_features \o categorical_features) \subseteq columns
    THEN [raised |-> "none",
          feature_names |-> numerical_features \o categorical_features,
          categorical_features |-> categorical_features]
    ELSE [raised |-> "KeyError", feature_names |-> <<>>, categorical_features |-> <<>>]

-----------------------------------------------------------------------------
(* Files of the model directory: pickle and JSON *)

Absent == <<"ENOENT">>      \* the file does not exist
Empty == <<>>               \* the file exists and holds nothing (just opened for writing)

None == <<>>                \* a field that is None
Some(x) == <<x>>            \* a field that is set
Get(f) == f[1]

\* A trained booster: which target, and the train run (process) that fitted it.
Booster(target, run) == [target |-> target, run |-> run]

\* pickle.dump(model, f): the bytes written.
Pickle(m) == <<"PKL", m.target, m.run, ".">>

\* pickle.load(f): the object, or the exception (FileNotFoundError from open,
\* EOFError on an empty file, UnpicklingError on other bytes).
Unpickle(bytes) ==
    IF bytes = Absent THEN [raised |-> "FileNotFoundError", obj |-> None]
    ELSE IF bytes = Empty THEN [raised |-> "EOFError", obj |-> None]
    ELSE IF Len(bytes) = 4 /\ bytes[1] = "PKL" /\ bytes[4] = "."
         THEN [raised |-> "none", obj |-> Some(Booster(bytes[2], bytes[3]))]
         ELSE [raised |-> "UnpicklingError", obj |-> None]

\* json.dump({'feature_names': names, 'categorical_features': cats}, f)
JsonDump(names, cats) ==
    <<"{", "feature_names", "[">> \o names
        \o <<"]", "categorical_features", "[">> \o cats \o <<"]", "}">>

\* Index of the first "]" at or after i, 0 when there is none.
RECURSIVE CloseAt(_, _)
CloseAt(t, i) ==
    IF i > Len(t) THEN 0
    ELSE IF t[i] = "]" THEN i
         ELSE CloseAt(t, i + 1)

\* The members of a JSON object of string lists, read from token i on:
\* a sequence of <<key, list>>, or <<"bad">> when the text is not such an object.
RECURSIVE JsonMembers(_, _)
JsonMembers(t, i) ==
    IF i = Len(t) /\ t[i] = "}" THEN <<>>
    ELSE IF i + 2 > Len(t) \/ t[i + 1] # "[" \/ CloseAt(t, i + 2) = 0 THEN <<"bad">>
    ELSE LET close == CloseAt(t, i + 2)
             rest == JsonMembers(t, close + 1)
         IN IF rest = <<"bad">> THEN rest
            ELSE <<<<t[i], SubSeq(t, i + 2, close - 1)>>>> \o rest

\* json.load(f): the members, or the exception.
JsonLoad(bytes) ==
    IF bytes = Absent THEN [raised |-> "FileNotFoundError", members |-> <<>>]
    ELSE IF bytes = Empty \/ bytes[1] # "{" \/ JsonMembers(bytes, 2) = <<"bad">>
         THEN [raised |-> "JSONDecodeError", members |-> <<>>]
         ELSE [raised |-> "none", members |-> JsonMembers(bytes, 2)]

HasKey(members, k) == \E i \in 1..Len(members) : members[i][1] = k
Lookup(members, k) == members[CHOOSE i \in 1..Len(members) : members[i][1] = k][2]

-----------------------------------------------------------------------------
(* Inputs of the command line runs *)

SchemaColumns == Range(numerical_features) \cup Range(categorical_features)
TargetColumns == {"price_target", "sales_target"}

\* Training / validation tables, by the columns and the number of rows read_csv finds.
GoodFrame == [columns |-> SchemaColumns \cup TargetColumns, nrows |-> MinRows + 2]
FewRowsFrame == [columns |-> SchemaColumns \cup TargetColumns, nrows |-> MinRows - 1]
MissingColFrame == [columns |-> (SchemaColumns \cup TargetColumns) \ {"seller"}, nrows |-> MinRows + 2]
RequiredOnlyFrame == [columns |-> Range(required_columns), nrows |-> MinRows]

\* A prediction record: key -> value. The value of a key is its place in the
\* order the caller wrote the keys (categorical fields first), the two flags
\* are booleans.
RawOrder == categorical_features \o numerical_features
PlaceOf(k) == CHOOSE i \in 1..Len(RawOrder) : RawOrder[i] = k
FullRecord ==
    [k \in SchemaColumns |-> IF k \in {"is_weekend", "is_holiday"} THEN k = "is_weekend"
                             ELSE PlaceOf(k)]
Without(rec, k) == [x \in (DOMAIN rec) \ {k} |-> rec[x]]
NoLagRecord == Without(FullRecord, "price_lag_1")

\* pd.read_csv(path): the table in the file of that name.
ReadCsv(path) ==
    CASE path = "good.csv" -> GoodFrame
      [] path = "few_rows.csv" -> FewRowsFrame
      [] path = "missing_col.csv" -> MissingColFrame
      [] path = "required_only.csv" -> RequiredOnlyFrame

\* json.loads(text) of the predict argument, for the texts that are JSON.
JsonLoads(text) ==
    CASE text = "full" -> FullRecord
      [] text = "no_lag" -> NoLagRecord

FreshFields ==
    [price_model |-> None, sales_model |-> None,
     feature_names |-> None, categorical_features |-> None]

NoArgs ==
    [action |-> "none", val_data |-> FALSE, train_df |-> "good.csv", val_df |-> "good.csv",
     fit |-> "ok", json_ok |-> FALSE, record |-> "full", op |-> "none",
     loaded |-> FALSE, before |-> FreshFields]

TrainArg(val_data, train_df, val_df, fit) ==
    [NoArgs EXCEPT !.action = "train", !.val_data = val_data, !.train_df = train_df,
                   !.val_df = val_df, !.fit = fit]

\* train <csv> [--val-data <csv>]; fit tells whether lgb.train raises for these tables.
\* The runs that reach save_models:
RacingTrainArgs == {TrainArg(TRUE, "good.csv", "good.csv", "ok")}

\* and every way a train run ends:
TrainArgs ==
    {TrainArg(TRUE, "good.csv", "good.csv", "ok"),
     TrainArg(FALSE, "good.csv", "good.csv", "ok"),
     TrainArg(TRUE, "missing_col.csv", "few_rows.csv", "ok"),
     TrainArg(TRUE, "good.csv", "few_rows.csv", "ok"),
     TrainArg(TRUE, "required_only.csv", "good.csv", "ok"),
     TrainArg(TRUE, "good.csv", "good.csv", "sales_raises")}

PredictArg(json_ok, record) ==
    [NoArgs EXCEPT !.action = "predict", !.json_ok = json_ok, !.record = record, !.op = "predict"]

\* predict <text>: text that is not JSON, a complete record, a record without a lag feature.
PredictArgs ==
    {PredictArg(FALSE, "full"), PredictArg(TRUE, "full"), PredictArg(TRUE, "no_lag")}

-----------------------------------------------------------------------------
(* stdout lines *)

Line(k, keys, body) == [kind |-> k, keys |-> keys, body |-> body]
\* log_info(msg): print(f"INFO: {msg}") (and the same text on stderr)
Info == Line("INFO", {}, <<>>)
\* print(msg) of validate_data and load_models: no prefix, not JSON
Raw == Line("RAW", {}, <<>>)
\* print(json.dumps(metrics))
MetricsLine == Line("JSON", {"price_model", "sales_model"}, <<>>)
\* print(json.dumps(prediction))
PredictionLine(pred) == Line("JSON", {"predicted_price", "predicted_sales"}, pred)
\* print(json.dumps({"error": msg}))
ErrorLine(msg) == Line("JSON", {"error"}, msg)

Lines(kinds) == [i \in 1..Len(kinds) |-> Line(kinds[i], {}, <<>>)]

Running == 0 - 1            \* exit status of a process that has not ended

Emit(p, lines) == stdout' = [stdout EXCEPT ![p] = @ \o lines]

\* The process ends with this status; exc is the exception that propagated out of main().
Ends(p, status, exc) ==
    /\ exit' = [exit EXCEPT ![p] = status]
    /\ uncaught' = [uncaught EXCEPT ![p] = exc]
    /\ pc' = [pc EXCEPT ![p] = "done"]

-----------------------------------------------------------------------------
(* main(), action train *)

MainTrainNoValCheck(p) ==
    /\ kind[p] = "train"
    /\ pc[p] = "start"
    /\ Emit(p, <<Info, Info>>)
    /\ pc' = [pc EXCEPT ![p] = "train"]
    /\ UNCHANGED <<exit, uncaught>>
    /\ UNCHANGED <<kind, args, self, disk, wrote, lastWriter, calls>>
    /\ UNCHANGED pureVars

\* parse_args, log_info, LightGBMPredictor(model_dir); without --val-data:
\* log_info and sys.exit(1); otherwise log_info and predictor.train(...) is entered.
MainTrain(p) ==
    /\ kind[p] = "train"
    /\ pc[p] = "start"
    /\ IF ~args[p].val_data
       THEN /\ Emit(p, <<Info, Info>>)
            /\ Ends(p, 1, "none")
       ELSE /\ Emit(p, <<Info, Info>>)
            /\ pc' = [pc EXCEPT ![p] = "train"]
            /\ UNCHANGED <<exit, uncaught>>
    /\ UNCHANGED <<kind, args, self, disk, wrote, lastWriter, calls>>
    /\ UNCHANGED pureVars

TrainValidOnlyTrain(a) ==
    LET v1 == ValidateData(ReadCsv(a.train_df))
    IN [ok |-> v1.ret, printed |-> v1.printed]

\* not self.validate_data(train_df) or not self.validate_data(val_df):
\* the second table is validated only when the first is valid.
TrainValid(a) ==
    LET v1 == ValidateData(ReadCsv(a.train_df))
        v2 == ValidateData(ReadCsv(a.val_df))
    IN IF ~v1.ret THEN [ok |-> FALSE, printed |-> v1.printed]
       ELSE [ok |-> v2.ret, printed |-> v1.printed \o v2.printed]

\* train() up to the call of save_models: the two read_csv with their
\* log_info; the validation, and on failure log_info and raise ValueError;
\* remove_outliers and dropna (they change only the local tables);
\* _prepare_features on both tables; the two lgb.train calls. No exception is
\* caught: it leaves main(), and the fields assigned before it stay assigned.
TrainFit(p) ==
    /\ kind[p] = "train"
    /\ pc[p] = "train"
    /\ LET a == args[p]
           v == TrainValid(a)
           pt == PrepareFeatures(ReadCsv(a.train_df).columns)
           pv == PrepareFeatures(ReadCsv(a.val_df).columns)
           f1 == [self[p] EXCEPT !.feature_names = Some(pt.feature_names),
                                 !.categorical_features = Some(pt.categorical_features)]
           f2 == [f1 EXCEPT !.price_model = Some(Booster("price", p))]
           f3 == [f2 EXCEPT !.sales_model = Some(Booster("sales", p))]
           read == <<Info, Info>> \o Lines(v.printed)
       IN CASE ~v.ok ->
                 /\ Emit(p, read \o <<Info>>)
                 /\ Ends(p, 1, "ValueError")
                 /\ UNCHANGED self
            [] v.ok /\ pt.raised # "none" ->
                 /\ Emit(p, read)
                 /\ Ends(p, 1, pt.raised)
                 /\ UNCHANGED self
            [] v.ok /\ pt.raised = "none" /\ pv.raised # "none" ->
                 /\ self' = [self EXCEPT ![p] = f1]
                 /\ Emit(p, read)
                 /\ Ends(p, 1, pv.raised)
            [] v.ok /\ pt.raised = "none" /\ pv.raised = "none" /\ a.fit = "price_raises" ->
                 /\ self' = [self EXCEPT ![p] = f1]
                 /\ Emit(p, read \o <<Info, Info, Info>>)
                 /\ Ends(p, 1, "LightGBMError")
            [] v.ok /\ pt.raised = "none" /\ pv.raised = "none" /\ a.fit = "sales_raises" ->
                 /\ self' = [self EXCEPT ![p] = f2]
                 /\ Emit(p, read \o <<Info, Info, Info, Info>>)
                 /\ Ends(p, 1, "LightGBMError")
            [] OTHER ->
                 /\ self' = [self EXCEPT ![p] = f3]
                 /\ Emit(p, read \o <<Info, Info, Info, Info>>)
                 /\ pc' = [pc EXCEPT ![p] = "open_price"]
                 /\ UNCHANGED <<exit, uncaught>>
    /\ UNCHANGED <<kind, args, disk, wrote, lastWriter, calls>>
    /\ UNCHANGED pureVars

-----------------------------------------------------------------------------
(* save_models *)

ArtifactAt(pos) ==
    CASE pos \in {"open_price", "dump_price"} -> "price_model.pkl"
      [] pos \in {"open_sales", "dump_sales"} -> "sales_model.pkl"
      [] pos \in {"open_info", "dump_info"} -> "feature_info.json"

DumpAt(pos) ==
    CASE pos = "open_price" -> "dump_price"
      [] pos = "open_sales" -> "dump_sales"
      [] pos = "open_info" -> "dump_info"

AfterAt(pos) ==
    CASE pos \in {"open_price", "dump_price"} -> "open_sales"
      [] pos \in {"open_sales", "dump_sales"} -> "open_info"
      [] pos \in {"open_info", "dump_info"} -> "report"

\* The three "is not None" guards of save_models.
Saves(fields, art) ==
    CASE art = "price_model.pkl" -> fields.price_model # None
      [] art = "sales_model.pkl" -> fields.sales_model # None
      [] art = "feature_info.json" ->
            fields.feature_names # None /\ fields.categorical_features # None

DumpedSwapped(fields, art) ==
    CASE art = "price_model.pkl" -> Pickle(Get(fields.sales_model))
      [] art = "sales_model.pkl" -> Pickle(Get(fields.price_model))
      [] art = "feature_info.json" ->
            JsonDump(Get(fields.feature_names), Get(fields.categorical_features))

DumpedNamesSorted(fields, art) ==
    CASE art = "price_model.pkl" -> Pickle(Get(fields.price_model))
      [] art = "sales_model.pkl" -> Pickle(Get(fields.sales_model))
      [] art = "feature_info.json" ->
            JsonDump(Get(fields.categorical_features) \o numerical_features,
                     Get(fields.categorical_features))

\* What pickle.dump / json.dump write into each artifact.
Dumped(fields, art) ==
    CASE art = "price_model.pkl" -> Pickle(Get(fields.price_model))
      [] art = "sales_model.pkl" -> Pickle(Get(fields.sales_model))
      [] art = "feature_info.json" ->
            JsonDump(Get(fields.feature_names), Get(fields.categorical_features))

\* open(path, 'wb') / open(path, 'w'): the file is created or truncated.
SaveOpen(p) ==
    /\ kind[p] = "train"
    /\ pc[p] \in {"open_price", "open_sales", "open_info"}
    /\ IF Saves(self[p], ArtifactAt(pc[p]))
       THEN /\ disk' = [disk EXCEPT ![ArtifactAt(pc[p])] = Empty]
            /\ pc' = [pc EXCEPT ![p] = DumpAt(pc[p])]
       ELSE /\ pc' = [pc EXCEPT ![p] = AfterAt(pc[p])]
            /\ UNCHANGED disk
    /\ UNCHANGED <<kind, args, self, stdout, exit, uncaught, wrote, lastWriter, calls>>
    /\ UNCHANGED pureVars

\* pickle.dump / json.dump and the close of the with block: the content is in the file.
SaveDump(p) ==
    /\ kind[p] = "train"
    /\ pc[p] \in {"dump_price", "dump_sales", "dump_info"}
    /\ disk' = [disk EXCEPT ![ArtifactAt(pc[p])] = Dumped(self[p], ArtifactAt(pc[p]))]
    /\ wrote' = [wrote EXCEPT ![p] = @ \cup {ArtifactAt(pc[p])}]
    /\ lastWriter' = [lastWriter EXCEPT ![ArtifactAt(pc[p])] = p]
    /\ pc' = [pc EXCEPT ![p] = AfterAt(pc[p])]
    /\ UNCHANGED <<kind, args, self, stdout, exit, uncaught, calls>>
    /\ UNCHANGED pureVars

\* train() after save_models: the three log_info, print(json.dumps(metrics)),
\* return; main() ends and the process exits 0.
TrainReport(p) ==
    /\ kind[p] = "train"
    /\ pc[p] = "report"
    /\ Emit(p, <<Info, Info, Info, MetricsLine>>)
    /\ Ends(p, 0, "none")
    /\ UNCHANGED <<kind, args, self, disk, wrote, lastWriter, calls>>
    /\ UNCHANGED pureVars

-----------------------------------------------------------------------------
(* predict(): the body after the models are resident *)

\* df['is_weekend'].astype(int), df['is_holiday'].astype(int)
Coerce(k, v) == IF k \in {"is_weekend", "is_holiday"} THEN (IF v THEN 1 ELSE 0) ELSE v

\* X = df[names]: the record's values in the order of names.
Select(record, names) == [i \in 1..Len(names) |-> Coerce(names[i], record[names[i]])]

\* model.predict(X)[0]: decided by the booster and the row it is given.
Predicted(model, X) == [model |-> model, x |-> X]

\* Lines 285-309: the loop over self.categorical_features (TypeError when it is
\* None), df[self.feature_names] (KeyError naming the keys the record lacks),
\* the two model.predict calls.
PredictBody(fields, record) ==
    IF fields.categorical_features = None
    THEN [raised |-> "TypeError", msg |-> <<"'NoneType' object is not iterable">>, pred |-> <<>>]
    ELSE LET names == Get(fields.feature_names)
             missing == SeqFilter(names, Range(names) \ DOMAIN record)
         IN IF missing # <<>>
            THEN [raised |-> "KeyError", msg |-> missing, pred |-> <<>>]
            ELSE [raised |-> "none", msg |-> <<>>,
                  pred |-> <<Predicted(Get(fields.price_model), Select(record, names)),
                             Predicted(Get(fields.sales_model), Select(record, names))>>]

\* if self.price_model is None or self.sales_model is None
NeedsLoad(fields) == fields.price_model = None \/ fields.sales_model = None

CallEndsSilentError(p, ret, raised, msg, pred, fields, printed) ==
    /\ self' = [self EXCEPT ![p] = fields]
    /\ IF kind[p] = "lib"
       THEN /\ calls' = Append(calls, [op |-> args[p].op, loaded |-> args[p].loaded,
                                       load_ret |-> IF ~args[p].loaded THEN "n/a"
                                                    ELSE IF printed = <<>> THEN "True"
                                                    ELSE "False",
                                       ret |-> ret, raised |-> raised,
                                       before |-> args[p].before, after |-> fields])
            /\ pc' = [pc EXCEPT ![p] = "idle"]
            /\ Emit(p, printed)
            /\ UNCHANGED <<exit, uncaught>>
       ELSE /\ IF raised = "none"
               THEN /\ Emit(p, printed \o <<Info, PredictionLine(pred)>>)
                    /\ Ends(p, 0, "none")
               ELSE /\ Emit(p, printed \o <<Info>>)
                    /\ Ends(p, 1, "none")
            /\ UNCHANGED calls

\* A call on the object ends: a load_models() or predict() call of the host
\* program is recorded; in the CLI the try/except of main() prints the result
\* or the error and the process exits.
CallEnds(p, ret, raised, msg, pred, fields, printed) ==
    /\ self' = [self EXCEPT ![p] = fields]
    /\ IF kind[p] = "lib"
       THEN /\ calls' = Append(calls, [op |-> args[p].op, loaded |-> args[p].loaded,
                                       load_ret |-> IF ~args[p].loaded THEN "n/a"
                                                    ELSE IF printed = <<>> THEN "True"
                                                    ELSE "False",
                                       ret |-> ret, raised |-> raised,
                                       before |-> args[p].before, after |-> fields])
            /\ pc' = [pc EXCEPT ![p] = "idle"]
            /\ Emit(p, printed)
            /\ UNCHANGED <<exit, uncaught>>
       ELSE /\ IF raised = "none"
               THEN /\ Emit(p, printed \o <<Info, PredictionLine(pred)>>)
                    /\ Ends(p, 0, "none")
               ELSE /\ Emit(p, printed \o <<Info, ErrorLine(msg)>>)
                    /\ Ends(p, 1, "none")
            /\ UNCHANGED calls

NotLoaded == <<"Models not trained or loaded properly">>

\* load_models() returned False: the except branch printed the error; a
\* predict() call then raises ValueError.
LoadFails(p, fields) ==
    IF args[p].op = "load"
    THEN CallEnds(p, "False", "none", <<>>, <<>>, fields, <<Raw>>)
    ELSE CallEnds(p, "none", "ValueError", NotLoaded, <<>>, fields, <<Raw>>)

\* with open(price_model.pkl, 'rb'): self.price_model = pickle.load(f)
LoadPrice(p) ==
    /\ kind[p] \in {"predict", "lib"}
    /\ pc[p] = "load_price"
    /\ LET r == Unpickle(disk["price_model.pkl"])
       IN IF r.raised # "none"
          THEN LoadFails(p, self[p])
          ELSE /\ self' = [self EXCEPT ![p].price_model = r.obj]
               /\ pc' = [pc EXCEPT ![p] = "load_sales"]
               /\ UNCHANGED <<stdout, exit, uncaught, calls>>
    /\ UNCHANGED <<kind, args, disk, wrote, lastWriter>>
    /\ UNCHANGED pureVars

\* with open(sales_model.pkl, 'rb'): self.sales_model = pickle.load(f)
LoadSales(p) ==
    /\ kind[p] \in {"predict", "lib"}
    /\ pc[p] = "load_sales"
    /\ LET r == Unpickle(disk["sales_model.pkl"])
       IN IF r.raised # "none"
          THEN LoadFails(p, self[p])
          ELSE /\ self' = [self EXCEPT ![p].sales_model = r.obj]
               /\ pc' = [pc EXCEPT ![p] = "load_info"]
               /\ UNCHANGED <<stdout, exit, uncaught, calls>>
    /\ UNCHANGED <<kind, args, disk, wrote, lastWriter>>
    /\ UNCHANGED pureVars

\* with open(feature_info.json): json.load, then the two assignments from the
\* keys of the document (KeyError on a missing key, after the assignments made
\* so far); return True.
LoadInfo(p) ==
    /\ kind[p] \in {"predict", "lib"}
    /\ pc[p] = "load_info"
    /\ LET r == JsonLoad(disk["feature_info.json"])
           m == r.members
           f1 == [self[p] EXCEPT !.feature_names = Some(Lookup(m, "feature_names"))]
           f2 == [f1 EXCEPT !.categorical_features = Some(Lookup(m, "categorical_features"))]
       IN CASE r.raised # "none" -> LoadFails(p, self[p])
            [] r.raised = "none" /\ ~HasKey(m, "feature_names") -> LoadFails(p, self[p])
            [] r.raised = "none" /\ HasKey(m, "feature_names")
                  /\ ~HasKey(m, "categorical_features") -> LoadFails(p, f1)
            [] OTHER ->
                  IF args[p].op = "load"
                  THEN CallEnds(p, "True", "none", <<>>, <<>>, f2, <<>>)
                  ELSE /\ self' = [self EXCEPT ![p] = f2]
                       /\ pc' = [pc EXCEPT ![p] = "body"]
                       /\ UNCHANGED <<stdout, exit, uncaught, calls>>
    /\ UNCHANGED <<kind, args, disk, wrote, lastWriter>>
    /\ UNCHANGED pureVars

\* predict() from the DataFrame construction to the return.
PredictRun(p) ==
    /\ kind[p] \in {"predict", "lib"}
    /\ pc[p] = "body"
    /\ LET r == PredictBody(self[p], JsonLoads(args[p].record))
       IN IF r.raised = "none"
          THEN CallEnds(p, "prediction", "none", <<>>, r.pred, self[p], <<>>)
          ELSE CallEnds(p, "none", r.raised, r.msg, <<>>, self[p], <<>>)
    /\ UNCHANGED <<kind, args, disk, wrote, lastWriter>>
    /\ UNCHANGED pureVars

-----------------------------------------------------------------------------
(* main(), action predict *)

\* parse_args, log_info, LightGBMPredictor(model_dir), json.loads: on
\* JSONDecodeError log_info, the error line and sys.exit(1); otherwise
\* log_info and predictor.predict(product_data) is entered.
MainPredict(p) ==
    /\ kind[p] = "predict"
    /\ pc[p] = "start"
    /\ IF ~args[p].json_ok
       THEN /\ Emit(p, <<Info, Info, ErrorLine(<<"Invalid JSON input for prediction">>)>>)
            /\ Ends(p, 1, "none")
            /\ UNCHANGED args
       ELSE /\ args' = [args EXCEPT ![p].loaded = NeedsLoad(self[p]), ![p].before = self[p]]
            /\ Emit(p, <<Info, Info>>)
            /\ pc' = [pc EXCEPT ![p] = IF NeedsLoad(self[p]) THEN "load_price" ELSE "body"]
            /\ UNCHANGED <<exit, uncaught>>
    /\ UNCHANGED <<kind, self, disk, wrote, lastWriter, calls>>
    /\ UNCHANGED pureVars

-----------------------------------------------------------------------------
(* A LightGBMPredictor object used by a host program *)

\* predictor.load_models()
LibLoadModels(p) ==
    /\ kind[p] = "lib"
    /\ pc[p] = "idle"
    /\ Len(calls) < MaxCalls
    /\ args' = [args EXCEPT ![p] = [NoArgs EXCEPT !.op = "load", !.loaded = TRUE,
                                                  !.before = self[p]]]
    /\ pc' = [pc EXCEPT ![p] = "load_price"]
    /\ UNCHANGED <<kind, self, stdout, exit, uncaught, disk, wrote, lastWriter, calls>>
    /\ UNCHANGED pureVars

\* predictor.predict(record): load_models is called when a model is None.
LibPredict(p) ==
    /\ kind[p] = "lib"
    /\ pc[p] = "idle"
    /\ Len(calls) < MaxCalls
    /\ \E rec \in {"full", "no_lag"} :
        args' = [args EXCEPT ![p] = [NoArgs EXCEPT !.op = "predict", !.record = rec,
                                                   !.loaded = NeedsLoad(self[p]),
                                                   !.before = self[p]]]
    /\ pc' = [pc EXCEPT ![p] = IF NeedsLoad(self[p]) THEN "load_price" ELSE "body"]
    /\ UNCHANGED <<kind, self, stdout, exit, uncaught, disk, wrote, lastWriter, calls>>
    /\ UNCHANGED pureVars

-----------------------------------------------------------------------------
(* The model directory before the runs *)

NoBundle == [a \in Artifacts |-> Absent]

\* The bundle an earlier train run (run 0) left.
OldFields ==
    [price_model |-> Some(Booster("price", 0)), sales_model |-> Some(Booster("sales", 0)),
     feature_names |-> Some(PrepareFeatures(GoodFrame.columns).feature_names),
     categorical_features |-> Some(PrepareFeatures(GoodFrame.columns).categorical_features)]
OldBundle == [a \in Artifacts |-> Dumped(OldFields, a)]

InitProcs(kinds, trainArgs) ==
    /\ kind = kinds
    /\ pc = [p \in Procs |-> CASE kinds[p] = "off" -> "done"
                               [] kinds[p] = "lib" -> "idle"
                               [] OTHER -> "start"]
    /\ args \in {f \in [Procs -> trainArgs \cup PredictArgs \cup {NoArgs}] :
                   \A p \in Procs : CASE kinds[p] = "train" -> f[p] \in trainArgs
                                      [] kinds[p] = "predict" -> f[p] \in PredictArgs
                                      [] OTHER -> f[p] = NoArgs}
    /\ self = [p \in Procs |-> FreshFields]
    /\ stdout = [p \in Procs |-> <<>>]
    /\ exit = [p \in Procs |-> Running]
    /\ uncaught = [p \in Procs |-> "none"]
    /\ disk \in {NoBundle, OldBundle}
    /\ wrote = [p \in Procs |-> {}]
    /\ lastWriter = [a \in Artifacts |-> 0]
    /\ calls = <<>>

CliKinds == [p \in Procs |-> IF p <= NumTrain THEN "train" ELSE "predict"]

\* NumTrain train processes and one predict process, all running at once
\* on one model directory.
Init ==
    /\ PureIdle
    /\ InitProcs(CliKinds, RacingTrainArgs)

Next ==
    \E p \in Procs :
        \/ MainTrain(p)
        \/ TrainFit(p)
        \/ SaveOpen(p)
        \/ SaveDump(p)
        \/ TrainReport(p)
        \/ MainPredict(p)
        \/ LoadPrice(p)
        \/ LoadSales(p)
        \/ LoadInfo(p)
        \/ PredictRun(p)

Spec == Init /\ [][Next]_vars

\* One train process and one object of a host program on one model directory.
InitInstance ==
    /\ PureIdle
    /\ InitProcs([p \in Procs |-> CASE p = 1 -> "train" [] p = 2 -> "lib" [] OTHER -> "off"],
                 TrainArgs)

NextInstance ==
    \E p \in Procs :
        \/ MainTrain(p)
        \/ TrainFit(p)
        \/ SaveOpen(p)
        \/ SaveDump(p)
        \/ TrainReport(p)
        \/ LibLoadModels(p)
        \/ LibPredict(p)
        \/ LoadPrice(p)
        \/ LoadSales(p)
        \/ LoadInfo(p)
        \/ PredictRun(p)

SpecInstance == InitInstance /\ [][NextInstance]_vars

\* Train runs one after the other, then a predict run in a fresh process.
Turn(p) == \A q \in Procs : q < p => pc[q] = "done"

NextSeq ==
    \E p \in Procs :
        \/ Turn(p) /\ MainTrain(p)
        \/ Turn(p) /\ TrainFit(p)
        \/ Turn(p) /\ SaveOpen(p)
        \/ Turn(p) /\ SaveDump(p)
        \/ Turn(p) /\ TrainReport(p)
        \/ Turn(p) /\ MainPredict(p)
        \/ Turn(p) /\ LoadPrice(p)
        \/ Turn(p) /\ LoadSales(p)
        \/ Turn(p) /\ LoadInfo(p)
        \/ Turn(p) /\ PredictRun(p)

InitSeq ==
    /\ PureIdle
    /\ InitProcs(CliKinds, TrainArgs)

SpecSeq == InitSeq /\ [][NextSeq]_vars

-----------------------------------------------------------------------------
(* What the claims speak of *)

Trainers == {p \in Procs : kind[p] = "train"}
Predictors == {p \in Procs : kind[p] = "predict"}
Objects == {p \in Procs : kind[p] = "lib"}

JsonLines(p) == SelectSeq(stdout[p], LAMBDA l : l.kind = "JSON")
RawLines(p) == SelectSeq(stdout[p], LAMBDA l : l.kind = "RAW")

\* The table has the 8 required columns and at least 10 rows.
Valid(df) ==
    /\ {"price_target", "sales_target", "brand", "region", "category", "seller",
        "price", "original_price"} \subseteq df.columns
    /\ df.nrows >= 10

AllSet(f) ==
    /\ f.price_model # None
    /\ f.sales_model # None
    /\ f.feature_names # None
    /\ f.categorical_features # None

AllUnset(f) ==
    /\ f.price_model = None
    /\ f.sales_model = None
    /\ f.feature_names = None
    /\ f.categorical_features = None

-----------------------------------------------------------------------------
(* C1: a predict run ends in exactly one of two ways: exit 0 with one JSON   *)
(* line {predicted_price, predicted_sales}, or exit 1 with one JSON line     *)
(* {error}; the second for text that is not JSON, for models that cannot be  *)
(* loaded, and for a record without a schema key, whose message names the    *)
(* key. Before it ends it has printed no JSON line.                          *)
C1_PredictOutcome ==
    \A q \in Predictors :
        /\ pc[q] # "done" => Len(JsonLines(q)) = 0 /\ exit[q] = Running
        /\ pc[q] = "done" =>
            /\ Len(JsonLines(q)) = 1
            /\ uncaught[q] = "none"
            /\ \/ exit[q] = 0 /\ JsonLines(q)[1].keys = {"predicted_price", "predicted_sales"}
               \/ exit[q] = 1 /\ JsonLines(q)[1].keys = {"error"}
            /\ ~args[q].json_ok => exit[q] = 1
            /\ ~AllSet(self[q]) => exit[q] = 1
            /\ (args[q].json_ok /\ AllSet(self[q]) /\ "price_lag_1" \notin DOMAIN JsonLoads(args[q].record))
                  => /\ exit[q] = 1
                     /\ "price_lag_1" \in Range(JsonLines(q)[1].body)
            /\ (args[q].json_ok /\ AllSet(self[q]) /\ "price_lag_1" \in DOMAIN JsonLoads(args[q].record))
                  => exit[q] = 0

\* A predict run has ended with the error line naming the missing key.
C1_Witness ==
    \E q \in Predictors :
        /\ pc[q] = "done"
        /\ exit[q] = 1
        /\ AllSet(self[q])
        /\ JsonLines(q)[1].body = <<"price_lag_1">>

(* C2: every stdout line of a run other than its one JSON result line is    *)
(* prefixed INFO:, also while validate_data rejects a table and while        *)
(* load_models fails.                                                        *)
C2_OnlyInfoLines ==
    \A p \in Procs :
        /\ \A i \in 1..Len(stdout[p]) : stdout[p][i].kind \in {"INFO", "JSON"}
        /\ Len(JsonLines(p)) <= 1

(* C3: a train run that does not succeed prints no JSON line: without        *)
(* --val-data it exits 1 before train() is entered; when the training or     *)
(* the validation table is invalid, ValueError leaves main() uncaught and    *)
(* the exit status is not 0.                                                 *)
C3_TrainFailure ==
    \A p \in Trainers :
        pc[p] = "done" =>
            /\ exit[p] # 0 => Len(JsonLines(p)) = 0
            /\ ~args[p].val_data =>
                  /\ exit[p] = 1
                  /\ uncaught[p] = "none"
                  /\ Len(stdout[p]) = 2
                  /\ AllUnset(self[p])
            /\ (args[p].val_data /\ (~Valid(ReadCsv(args[p].train_df)) \/ ~Valid(ReadCsv(args[p].val_df)))) =>
                  /\ uncaught[p] = "ValueError"
                  /\ exit[p] # 0
                  /\ Len(JsonLines(p)) = 0

\* A train run ended on a valid training table and an invalid validation table.
C3_Witness ==
    \E p \in Trainers :
        /\ pc[p] = "done"
        /\ args[p].val_data
        /\ Valid(ReadCsv(args[p].train_df))
        /\ ~Valid(ReadCsv(args[p].val_df))
        /\ uncaught[p] = "ValueError"

-----------------------------------------------------------------------------
\* The train runs that succeeded, and the last of them (runs are in process order
\* under SpecSeq).
Succeeded == {t \in Trainers : pc[t] = "done" /\ exit[t] = 0}
LastTrain == CHOOSE t \in Succeeded : \A u \in Succeeded : u <= t

TrainOrder ==
    <<"price", "original_price", "discount_percentage", "stock_level",
      "customer_rating", "review_count", "delivery_days", "is_weekend", "is_holiday",
      "sales_quantity_lag_1", "price_lag_1", "sales_quantity_lag_3", "price_lag_3",
      "sales_quantity_lag_7", "price_lag_7", "sales_quantity_rolling_mean_3",
      "price_rolling_mean_3", "sales_quantity_rolling_mean_7", "price_rolling_mean_7",
      "brand", "region", "category", "seller", "day_of_week", "month", "quarter">>

(* C6: after a train run has saved its bundle, load_models in a fresh        *)
(* process succeeds and yields the price model, the sales model, the         *)
(* feature_names in the same order and the categorical_features that were    *)
(* resident in the train run; predict then takes the record's values in      *)
(* that order, the order _prepare_features returned at train time.           *)
C6_RoundTrip ==
    \A q \in Predictors :
        (Succeeded # {} /\ args[q].json_ok /\ pc[q] \in {"body", "done"}) =>
            /\ Len(RawLines(q)) = 0
            /\ self[q].price_model = Some(Booster("price", LastTrain))
            /\ self[q].sales_model = Some(Booster("sales", LastTrain))
            /\ self[q] = self[LastTrain]
            /\ self[q].feature_names = Some(TrainOrder)
            /\ (pc[q] = "done" /\ exit[q] = 0) =>
                  LET pred == JsonLines(q)[1].body
                  IN /\ pred[1].model = Booster("price", LastTrain)
                     /\ pred[2].model = Booster("sales", LastTrain)
                     /\ \A i \in 1..Len(TrainOrder) :
                           /\ pred[1].x[i] = Coerce(TrainOrder[i], JsonLoads(args[q].record)[TrainOrder[i]])
                           /\ pred[2].x[i] = pred[1].x[i]
                     /\ Len(pred[1].x) = Len(TrainOrder)

\* A fresh predict run has printed a prediction from the bundle of a train run
\* that replaced an earlier bundle.
C6_Witness ==
    \E q \in Predictors :
        /\ pc[q] = "done"
        /\ exit[q] = 0
        /\ \E t \in Succeeded : t # LastTrain
        /\ JsonLines(q)[1].body[1].model.run = LastTrain

-----------------------------------------------------------------------------
AllTrainsDone == \A t \in Trainers : pc[t] = "done"

ModelOf(art) == IF art = "price_model.pkl" THEN "price" ELSE "sales"

\* Runs whose booster a loaded field can hold: the train processes, or run 0.
Runs == Trainers \cup {0}

(* C7: train runs saving into one directory interleave their three writes    *)
(* without locking: in the end each artifact holds what the process that     *)
(* wrote it last wrote, and a reader whose load_models succeeds holds, for   *)
(* each field, the value some run wrote - not necessarily the same run.      *)
C7_LastWriterWins ==
    /\ AllTrainsDone =>
          \A art \in Artifacts :
              IF lastWriter[art] = 0
              THEN disk[art] \in {Absent, OldBundle[art]}
              ELSE /\ lastWriter[art] \in Succeeded
                   /\ disk[art] = IF art = "feature_info.json"
                                  THEN JsonDump(TrainOrder, categorical_features)
                                  ELSE Pickle(Booster(ModelOf(art), lastWriter[art]))
    /\ \A q \in Predictors :
          pc[q] = "body" =>
              /\ \E r \in Runs : self[q].price_model = Some(Booster("price", r))
              /\ \E r \in Runs : self[q].sales_model = Some(Booster("sales", r))
              /\ self[q].feature_names = Some(TrainOrder)

\* A reader has loaded a torn bundle: the two models come from different train
\* runs of this directory, and on disk the artifacts end with different last writers.
C7_Witness ==
    /\ \E q \in Predictors :
          /\ pc[q] = "done"
          /\ exit[q] = 0
          /\ Get(self[q].price_model).run # Get(self[q].sales_model).run
          /\ Get(self[q].price_model).run # 0
          /\ Get(self[q].sales_model).run # 0
    /\ AllTrainsDone
    /\ lastWriter["price_model.pkl"] # lastWriter["sales_model.pkl"]
    /\ lastWriter["price_model.pkl"] # 0
    /\ lastWriter["sales_model.pkl"] # 0

-----------------------------------------------------------------------------
\* The train run p has passed the --val-data check and the validation of both
\* tables and holds the two models it fitted.
ReadyToSave(p) ==
    /\ args[p].val_data
    /\ Valid(ReadCsv(args[p].train_df))
    /\ Valid(ReadCsv(args[p].val_df))
    /\ args[p].fit = "ok"
    /\ self[p].price_model = Some(Booster("price", p))
    /\ self[p].sales_model = Some(Booster("sales", p))

C9_State ==
    \A p \in Trainers :
        /\ (pc[p] = "done" /\ exit[p] # 0) => wrote[p] = {}
        /\ wrote[p] # {} => ReadyToSave(p)
        /\ Len(JsonLines(p)) > 0 => wrote[p] = Artifacts

C9_Step ==
    \A art \in Artifacts :
        disk'[art] # disk[art] =>
            \E p \in Trainers :
                /\ ReadyToSave(p)
                /\ pc[p] \in {"open_price", "dump_price", "open_sales", "dump_sales",
                              "open_info", "dump_info"}
                /\ pc'[p] # pc[p]
                /\ Len(JsonLines(p)) = 0

(* C9: the bundle on disk is written only by a train run that passed the     *)
(* validation of both tables and fitted both models: a run that stops        *)
(* earlier changes none of the three artifacts, and the JSON success line    *)
(* is printed only after all three have been written.                        *)
C9_WritesOnlyAfterTraining == []C9_State /\ [][C9_Step]_vars

\* A train run failed in the second lgb.train, holding a fitted price model,
\* and the bundle of the earlier run is still on disk; another run has
\* printed its JSON line.
C9_Witness ==
    /\ \E p \in Trainers :
          /\ pc[p] = "done"
          /\ uncaught[p] = "LightGBMError"
          /\ self[p].price_model # None
    /\ \E p \in Trainers : Len(JsonLines(p)) = 1
    /\ lastWriter["price_model.pkl"] # 0

-----------------------------------------------------------------------------
(* C8: load_models never raises and returns True only when all three         *)
(* artifacts were read; every predict call on an object that holds no        *)
(* resident bundle attempts the load, and raises ValueError ("Models not     *)
(* trained or loaded properly") without a prediction when that load fails -  *)
(* for each predict call on the object, not only the first.                  *)
C8_PredictLoadsOrFails ==
    \A i \in 1..Len(calls) :
        LET c == calls[i]
        IN /\ c.op = "load" =>
                /\ c.raised = "none"
                /\ c.ret \in {"True", "False"}
                /\ c.ret = "True" => AllSet(c.after)
           /\ (c.op = "predict" /\ ~AllSet(c.before)) =>
                /\ c.loaded
                /\ c.load_ret = "False" => (c.raised = "ValueError" /\ c.ret = "none")

(* C10: the resident bundle of an object is all-or-nothing: between calls    *)
(* the four fields are all unset or all set, from one bundle, and a          *)
(* load_models call that returns failure leaves the four fields as they      *)
(* were before the call.                                                     *)
C10_AllOrNothing ==
    /\ \A p \in Objects :
          pc[p] = "idle" =>
              \/ AllUnset(self[p])
              \/ /\ AllSet(self[p])
                 /\ Get(self[p].price_model).run = Get(self[p].sales_model).run
    /\ \A i \in 1..Len(calls) :
          calls[i].load_ret = "False" => calls[i].after = calls[i].before

====
